---------------------------- MODULE Spec2Model ----------------------------
(***************************************************************************)
(* A model of homework/src/hash_table: the growable array (a trie of       *)
(* segments of atomic words whose root carries its height as a pointer     *)
(* tag) and, on top of it, the split-ordered list.                         *)
(*                                                                         *)
(* Word sizes are scaled down so that the state space is finite and small: *)
(* a machine word has USIZE_SIZE = 5 bits (64 in the build), a segment     *)
(* has 2^SEGMENT_LOGSIZE = 4 slots (1024 in the build) and a pointer to a  *)
(* Segment has TAG_BITS = 2 tag bits (3 in the build: a Segment is aligned *)
(* like an AtomicUsize).  The scaling keeps the relations of the build:    *)
(* the top height ceil(64/10) = 7 is the largest tag 2^3 - 1, as here the  *)
(* top height ceil(5/2) = 3 is the largest tag 2^2 - 1, and at the top     *)
(* height min(USIZE_SIZE, SEGMENT_LOGSIZE * height) clamps to the word.    *)
(***************************************************************************)
EXTENDS Integers, Sequences, FiniteSets, TLC

\* ------------------------------------------------------------------ bounds
\* Calls of get per thread in the growable-array specification.
MaxGets == 2
\* Segments ever published: caps the height loop of get(usize::MAX).
MaxSegs == 6
\* Calls of the map, all threads together, after the main thread's prefix.
MaxCalls == 3
\* Calls of the lock-coupling set, all threads together.
MaxSetCalls == 4

\* --------------------------------------------------------------- constants
USIZE_SIZE == 5
SEGMENT_LOGSIZE == 2
TAG_BITS == 2

SegSize == 2 ^ SEGMENT_LOGSIZE
UsizeMax == 2 ^ USIZE_SIZE - 1
TagMod == 2 ^ TAG_BITS

Min(a, b) == IF a < b THEN a ELSE b

\* The threads of the growable-array specification.
GetThreads == {1, 2}
\* The indices the threads pass to get.
GetIndices == {0, 3, 12, 16, UsizeMax}

VARIABLES
    root,      \* GrowableArray.root: a tagged pointer [p: segment, t: height tag]
    segs,      \* the published segments: segs[id][x] is the word in slot x
    g,         \* per thread: the position and the locals of its get call
    rets,      \* history: the slots get has returned, [i, s, x]
    raises,    \* history: successful compare_and_set calls on the root
    passed,    \* history: the indices passed to get so far
    freed,     \* after drop: freed[id] counts the times segment id was freed
    dropped,   \* "no", "yes", or the outcome of a drop with root tag 0
    nodes,     \* the list's nodes ever linked: [key, val, next, mark]
    head,      \* List.head: the first node (0 is null)
    size,      \* SplitOrderedList.size
    count,     \* SplitOrderedList.count
    th,        \* per thread: the position and the locals of its map call
    hist,      \* history: per thread, its calls with their results
    ref,       \* the reference map of the calls that ran alone
    fill,      \* the keys the main thread still inserts before the others start
    active,    \* the threads that call the map
    lsHead,    \* OrderedListSet.head: [next: first node, lock: holder or 0]
    lsNodes,   \* the set's nodes ever made: [data, next, lock, live]
    ls         \* per thread: the position and the locals of its set call

lsVars == <<lsHead, lsNodes, ls>>
gaVars == <<g, rets, raises, passed, freed, dropped, lsVars>>
solVars == <<nodes, head, size, count, th, hist, ref, fill, active, lsVars>>
tableVars == <<root, segs, g, rets, raises, passed, freed, dropped,
               nodes, head, size, count, th, hist, ref, fill, active>>
vars == <<root, segs, g, rets, raises, passed, freed, dropped,
          nodes, head, size, count, th, hist, ref, fill, active,
          lsHead, lsNodes, ls>>

\* ------------------------------------------------- the calls' results
Ok == <<"Ok">>
OkVal(v) == <<"Ok", v>>
Err == <<"Err">>
ErrVal(v) == <<"Err", v>>
Found(v) == <<"Some", v>>
NotFound == <<"None">>

\* ------------------------------------------------- the lock-coupling set
\* The threads that call the set and the keys they pass.
LsThreads == {1, 2}
LsKeys == {1, 2, 3}
LsOps == {"contains", "insert", "remove"}

\* A Cursor holds no guard (NoGuard), the guard of head (0), or the guard
\* of the next field of node n (n).
NoGuard == -1

LsIdle == [pc |-> "idle", op |-> "none", key |-> 0, at |-> NoGuard,
           node |-> 0, found |-> FALSE, res |-> <<"none">>, calls |-> 0]

\* OrderedListSet::new.
LsNew ==
    /\ lsHead = [next |-> 0, lock |-> 0]
    /\ lsNodes = <<>>
    /\ ls = [t \in LsThreads |-> LsIdle]

\* The pointer a guard gives access to: head, or the next field of a node.
Deref(at) == IF at = 0 THEN lsHead.next ELSE lsNodes[at].next

\* The mutex of head or of a node's next field, locked by t or unlocked.
HeadLocked(hd, at, t) == IF at = 0 THEN [hd EXCEPT !.lock = t] ELSE hd
NodesLocked(ns, at, t) == IF at > 0 THEN [ns EXCEPT ![at].lock = t] ELSE ns

\* The same with the pointer behind the guard set to n.
HeadStored(hd, at, n) == IF at = 0 THEN [hd EXCEPT !.next = n] ELSE hd
NodesStored(ns, at, n) == IF at > 0 THEN [ns EXCEPT ![at].next = n] ELSE ns

\* A find that walks on over an equal key.
KeyReachedStrict(key, data) == key < data

\* Cursor::find stops at the first node with key <= data.
KeyReached(key, data) == key <= data

\* Cursor::find, with the guard of the pointer p in hand: it stops with
\* found false at the end of the list, stops at a node that has reached
\* the key, or goes on to lock the next field of the node it looked at.
FindAt(r, at, p) ==
    IF p = 0
    THEN [r EXCEPT !.pc = "found", !.at = at, !.node = 0, !.found = FALSE]
    ELSE IF KeyReached(r.key, lsNodes[p].data)
    THEN [r EXCEPT !.pc = "found", !.at = at, !.node = p,
                   !.found = (r.key = lsNodes[p].data)]
    ELSE [r EXCEPT !.pc = "lock_next", !.at = at, !.node = p]

SetCalls == ls[1].calls + ls[2].calls

\* contains, insert or remove is called.
LsCall(t, op, key) ==
    /\ ls[t].pc = "idle"
    /\ SetCalls < MaxSetCalls
    /\ ls' = [ls EXCEPT ![t] = [LsIdle EXCEPT !.pc = "lock_head", !.op = op,
                                              !.key = key,
                                              !.calls = ls[t].calls + 1]]
    /\ UNCHANGED <<lsHead, lsNodes, tableVars>>

\* OrderedListSet::find: lock head; Cursor::find looks at the first node.
LsLockHead(t) ==
    /\ ls[t].pc = "lock_head"
    /\ lsHead.lock = 0
    /\ lsHead' = [lsHead EXCEPT !.lock = t]
    /\ ls' = [ls EXCEPT ![t] = FindAt(ls[t], 0, lsHead.next)]
    /\ UNCHANGED <<lsNodes, tableVars>>

\* Cursor::find, the loop: lock the node's next field, which unlocks the
\* guard held so far, and look at the next node.
LsLockNext(t) ==
    /\ ls[t].pc = "lock_next"
    /\ lsNodes[ls[t].node].lock = 0
    /\ lsHead' = HeadLocked(lsHead, ls[t].at, 0)
    /\ lsNodes' = [NodesLocked(lsNodes, ls[t].at, 0) EXCEPT
                      ![ls[t].node].lock = t]
    /\ ls' = [ls EXCEPT ![t] = FindAt(ls[t], ls[t].node,
                                      lsNodes[ls[t].node].next)]
    /\ UNCHANGED tableVars

\* The thread's record when its call returns res; the cursor is dropped.
LsReturned(r, res) == [LsIdle EXCEPT !.res = res, !.calls = r.calls]

\* contains: the answer of find.
LsContains(t) ==
    /\ ls[t].pc = "found"
    /\ ls[t].op = "contains"
    /\ lsHead' = HeadLocked(lsHead, ls[t].at, 0)
    /\ lsNodes' = NodesLocked(lsNodes, ls[t].at, 0)
    /\ ls' = [ls EXCEPT ![t] = LsReturned(ls[t], <<ls[t].found>>)]
    /\ UNCHANGED tableVars

\* insert: Err(key) when found, else a new node before the one reached.
LsInsert(t) ==
    /\ ls[t].pc = "found"
    /\ ls[t].op = "insert"
    /\ IF ls[t].found
       THEN /\ lsHead' = HeadLocked(lsHead, ls[t].at, 0)
            /\ lsNodes' = NodesLocked(lsNodes, ls[t].at, 0)
            /\ ls' = [ls EXCEPT ![t] = LsReturned(ls[t], ErrVal(ls[t].key))]
       ELSE LET new == [data |-> ls[t].key, next |-> Deref(ls[t].at),
                        lock |-> 0, live |-> TRUE]
                id == Len(lsNodes) + 1
            IN  /\ lsHead' = HeadLocked(HeadStored(lsHead, ls[t].at, id),
                                        ls[t].at, 0)
                /\ lsNodes' = NodesLocked(NodesStored(Append(lsNodes, new),
                                                      ls[t].at, id),
                                          ls[t].at, 0)
                /\ ls' = [ls EXCEPT ![t] = LsReturned(ls[t], Ok)]
    /\ UNCHANGED tableVars

\* remove: Err when not found, else take the node behind the guard.
LsRemove(t) ==
    /\ ls[t].pc = "found"
    /\ ls[t].op = "remove"
    /\ IF ~ls[t].found
       THEN /\ lsHead' = HeadLocked(lsHead, ls[t].at, 0)
            /\ lsNodes' = NodesLocked(lsNodes, ls[t].at, 0)
            /\ ls' = [ls EXCEPT ![t] = LsReturned(ls[t], Err)]
       ELSE /\ ls' = [ls EXCEPT ![t].pc = "rm_lock",
                                ![t].node = Deref(ls[t].at)]
            /\ UNCHANGED <<lsHead, lsNodes>>
    /\ UNCHANGED tableVars

\* remove: lock the removed node's next field, store it behind the guard,
\* unlock both, free the node and return its data.
LsRemoveUnlink(t) ==
    /\ ls[t].pc = "rm_lock"
    /\ lsNodes[ls[t].node].lock = 0
    /\ lsHead' = HeadLocked(HeadStored(lsHead, ls[t].at,
                                       lsNodes[ls[t].node].next),
                            ls[t].at, 0)
    /\ lsNodes' = [NodesLocked(NodesStored(lsNodes, ls[t].at,
                                           lsNodes[ls[t].node].next),
                               ls[t].at, 0)
                      EXCEPT ![ls[t].node].live = FALSE]
    /\ ls' = [ls EXCEPT ![t] =
                 LsReturned(ls[t], OkVal(lsNodes[ls[t].node].data))]
    /\ UNCHANGED tableVars

NextLS ==
    \/ \E t \in LsThreads, op \in LsOps, key \in LsKeys : LsCall(t, op, key)
    \/ \E t \in LsThreads : LsLockHead(t)
    \/ \E t \in LsThreads : LsLockNext(t)
    \/ \E t \in LsThreads : LsContains(t)
    \/ \E t \in LsThreads : LsInsert(t)
    \/ \E t \in LsThreads : LsRemove(t)
    \/ \E t \in LsThreads : LsRemoveUnlink(t)

\* ------------------------------------------------------------ the trie
\* A word of a slot or of the root: pointer p (0 is null) and low tag bits t.
Null == [p |-> 0, t |-> 0]
EmptySeg == [x \in 0..(SegSize - 1) |-> Null]

\* Shared::with_tag / Owned::with_tag keep only the low alignment bits.
WithTag(tag) == tag % TagMod

\* max_key of the height loop: usize::MAX >> (USIZE_SIZE - sr_count).
MaxKey(root_height) ==
    IF root_height > 0
    THEN LET sr_count == Min(USIZE_SIZE, SEGMENT_LOGSIZE * root_height)
         IN  UsizeMax \div (2 ^ (USIZE_SIZE - sr_count))
    ELSE 0

\* The loop's exit test.
HeightCovers(index, root_height) == index < MaxKey(root_height)

\* A descent that forgets the shift: every level uses the lowest digit.
CurrentIndexNoShift(index, current_height) == index % SegSize

\* current_index of the descent.
CurrentIndex(index, current_height) ==
    (index \div (2 ^ ((current_height - 1) * SEGMENT_LOGSIZE))) % SegSize

\* Segment::new with inner[0] set to the word w, as the height loop builds it.
NewRootSegment(w) == [EmptySeg EXCEPT ![0] = w]

GIdle == [pc |-> "idle", index |-> 0, root |-> Null, height |-> 0,
          node |-> 0, calls |-> 0]

InitGA ==
    /\ root = Null
    /\ segs = <<>>
    /\ g = [t \in GetThreads |-> GIdle]
    /\ rets = {}
    /\ raises = 0
    /\ passed = {}
    /\ freed = <<>>
    /\ dropped = "no"
    /\ nodes = <<>>
    /\ head = 0
    /\ size = 2
    /\ count = 0
    /\ th = <<>>
    /\ hist = <<>>
    /\ ref = <<>>
    /\ fill = <<>>
    /\ active = {}
    /\ LsNew

\* get is called.
GetCall(t, index) ==
    /\ dropped = "no"
    /\ g[t].pc = "idle"
    /\ g[t].calls < MaxGets
    /\ g' = [g EXCEPT ![t].pc = "load", ![t].index = index,
                      ![t].calls = @ + 1]
    /\ passed' = passed \cup {index}
    /\ UNCHANGED <<root, segs, rets, raises, freed, dropped, solVars>>

\* The height loop: load the root, leave the loop or go on to raise it.
GetLoadRoot(t) ==
    /\ g[t].pc = "load"
    /\ g' = [g EXCEPT ![t].root = root,
                      ![t].pc = IF HeightCovers(g[t].index, root.t)
                                THEN "descend" ELSE "cas",
                      ![t].height = root.t,
                      ![t].node = root.p]
    /\ UNCHANGED <<root, segs, rets, raises, passed, freed, dropped, solVars>>

\* The height loop: compare_and_set of the root to a new segment over it.
\* A segment that loses the race is dropped unpublished and gets no id.
GetRaise(t) ==
    /\ g[t].pc = "cas"
    /\ IF root = g[t].root
       THEN /\ Len(segs) < MaxSegs
            /\ segs' = Append(segs, NewRootSegment(g[t].root))
            /\ root' = [p |-> Len(segs) + 1, t |-> WithTag(g[t].root.t + 1)]
            /\ raises' = raises + 1
       ELSE UNCHANGED <<root, segs, raises>>
    /\ g' = [g EXCEPT ![t].pc = "load"]
    /\ UNCHANGED <<rets, passed, freed, dropped, solVars>>

\* The descent: load the slot; return it at height 1, follow it when set.
GetDescend(t) ==
    /\ g[t].pc = "descend"
    /\ LET x == CurrentIndex(g[t].index, g[t].height)
           next == segs[g[t].node][x]
       IN  IF g[t].height = 1
           THEN /\ rets' = rets \cup {[i |-> g[t].index, s |-> g[t].node, x |-> x]}
                /\ g' = [g EXCEPT ![t] = [GIdle EXCEPT !.calls = g[t].calls]]
           ELSE /\ rets' = rets
                /\ IF next.p = 0
                   THEN g' = [g EXCEPT ![t].pc = "install"]
                   ELSE g' = [g EXCEPT ![t].height = @ - 1, ![t].node = next.p]
    /\ UNCHANGED <<root, segs, raises, passed, freed, dropped, solVars>>

\* The descent: compare_and_swap of a null slot to a new segment.
GetInstall(t) ==
    /\ g[t].pc = "install"
    /\ LET x == CurrentIndex(g[t].index, g[t].height)
       IN  IF segs[g[t].node][x] = Null
           THEN /\ Len(segs) < MaxSegs
                /\ segs' = [Append(segs, EmptySeg) EXCEPT
                               ![g[t].node][x] = [p |-> Len(segs) + 1, t |-> 0]]
                /\ g' = [g EXCEPT ![t].pc = "descend", ![t].height = @ - 1,
                                  ![t].node = Len(segs) + 1]
           ELSE /\ segs' = segs
                /\ g' = [g EXCEPT ![t].pc = "descend"]
    /\ UNCHANGED <<root, rets, raises, passed, freed, dropped, solVars>>

\* ------------------------------------------------------------------ drop
\* The slots the drop loop visits: for x in 0..max_key, max_key = size - 1.
DropRange == 0..((SegSize - 1) - 1)

AddFree(f, s) == [f EXCEPT ![s] = @ + 1]

\* The drop loop: pop (node, height); free a height-1 node, else push the
\* non-null children of the visited slots and free the node.
RECURSIVE DropLoop(_, _)
DropLoop(stack, f) ==
    IF stack = <<>> THEN f
    ELSE LET top == stack[Len(stack)]
             rest == SubSeq(stack, 1, Len(stack) - 1)
             node == top[1]
             height == top[2]
             kids == {x \in DropRange : segs[node][x].p # 0}
             RECURSIVE Push(_, _)
             Push(st, xs) ==
                 IF xs = {} THEN st
                 ELSE LET x == CHOOSE y \in xs : \A z \in xs : y <= z
                      IN  Push(Append(st, <<segs[node][x].p, height - 1>>),
                               xs \ {x})
         IN  IF height = 1
             THEN DropLoop(rest, AddFree(f, node))
             ELSE DropLoop(Push(rest, kids), AddFree(f, node))

NoGetRunning == \A t \in GetThreads : g[t].pc = "idle"

\* GrowableArray::drop on a trie of height >= 1.
Drop ==
    /\ dropped = "no"
    /\ NoGetRunning
    /\ root.t >= 1
    /\ freed' = DropLoop(<<<<root.p, root.t>>>>, [s \in 1..Len(segs) |-> 0])
    /\ dropped' = "yes"
    /\ UNCHANGED <<root, segs, g, rets, raises, passed, solVars>>

\* What drop does to a null root (get was never called): unsafe
\* into_owned() of the null pointer, then node.inner[x] for x = 0. A build
\* with debug assertions panics in into_owned before any read ("panic");
\* a build without them reads node.inner[0] through the null pointer
\* ("null_deref").
NullRootOutcomes == {"panic", "null_deref"}

\* GrowableArray::drop with root tag 0: height is not 1, so the loop reads
\* the slots of the root as those of an inner node: through a null pointer
\* when get was never called, with height - 1 below zero for its children
\* ("ub") when the tag of a root in use has wrapped to 0.
DropHeightZero ==
    /\ dropped = "no"
    /\ NoGetRunning
    /\ root.t = 0
    /\ dropped' \in (IF root.p = 0 THEN NullRootOutcomes ELSE {"ub"})
    /\ UNCHANGED <<root, segs, g, rets, raises, passed, freed, solVars>>

NextGA ==
    \/ \E t \in GetThreads, index \in GetIndices : GetCall(t, index)
    \/ \E t \in GetThreads : GetLoadRoot(t)
    \/ \E t \in GetThreads : GetRaise(t)
    \/ \E t \in GetThreads : GetDescend(t)
    \/ \E t \in GetThreads : GetInstall(t)
    \/ Drop
    \/ DropHeightZero

SpecGA == InitGA /\ [][NextGA]_vars

\* The set alone: no call of the array or of the map is made.
InitLS == InitGA

SpecLS == InitLS /\ [][NextLS]_vars

\* ------------------------------------------------ the split-ordered list
\* The key of the word range with only the top bit set.
HI_MASK == 2 ^ (USIZE_SIZE - 1)
LOAD_FACTOR == 2
\* The inserts that bring count just over size * LOAD_FACTOR for size 2.
FillLen == 2 * LOAD_FACTOR + 1

\* The threads that may call the map.
Threads == {1, 2}
\* The keys the calls pass; 17 has its top bit set.
Keys == {1, 2, 3, 17}
Ops == {"lookup", "insert", "delete"}
\* What the main thread inserts, in order, before the other calls start.
FillKeys == <<1, 2, 7, 11, 15, 14, 6, 10, 13, 9>>

\* usize::reverse_bits, on words of USIZE_SIZE bits.
RECURSIVE RevBits(_, _)
RevBits(x, n) ==
    IF n = 0 THEN 0 ELSE (x % 2) * 2 ^ (n - 1) + RevBits(x \div 2, n - 1)

ReverseBits(x) == RevBits(x, USIZE_SIZE)

\* key | HI_MASK
OrHiMask(key) == IF key >= HI_MASK THEN key ELSE key + HI_MASK

\* A content key without the top bit: a data node sorts like a sentinel.
MakeContentKeyNoHi(key) == ReverseBits(key)

\* A content key of the low bits only (MASK & key | HI_MASK).
MASK == 2 ^ (USIZE_SIZE - 2) - 1
MakeContentKeyMasked(key) == ReverseBits(OrHiMask(key % (MASK + 1)))

MakeContentKey(key) == ReverseBits(OrHiMask(key))

\* No check of the key.
AssertValidKeyOff(key) == TRUE

\* assert_ne!(key.leading_zeros(), 0) passes.
AssertValidKey(key) == key < HI_MASK

\* The parent bucket: halve size until it is <= index, subtract it.
RECURSIVE HalveTo(_, _)
HalveTo(parent, index) ==
    LET p == parent \div 2 IN IF p > index THEN HalveTo(p, index) ELSE p

ParentBucket(sz, index) == index - HalveTo(sz, index)

\* GrowableArray::get run without interleaving: the root and the segments
\* after the call, and the slot (s, x) it returns.
RECURSIVE RaiseLoop(_, _, _)
RaiseLoop(r, sg, index) ==
    IF HeightCovers(index, r.t) THEN [root |-> r, segs |-> sg]
    ELSE RaiseLoop([p |-> Len(sg) + 1, t |-> WithTag(r.t + 1)],
                   Append(sg, NewRootSegment(r)), index)

RECURSIVE DescendLoop(_, _, _, _)
DescendLoop(sg, node, height, index) ==
    LET x == CurrentIndex(index, height)
    IN  IF height = 1 THEN [segs |-> sg, s |-> node, x |-> x]
        ELSE IF sg[node][x].p = 0
        THEN DescendLoop([Append(sg, EmptySeg) EXCEPT
                              ![node][x] = [p |-> Len(sg) + 1, t |-> 0]],
                         Len(sg) + 1, height - 1, index)
        ELSE DescendLoop(sg, sg[node][x].p, height - 1, index)

GetSeq(r, sg, index) ==
    LET a == RaiseLoop(r, sg, index)
        d == DescendLoop(a.segs, a.root.p, a.root.t, index)
    IN  [root |-> a.root, segs |-> d.segs, s |-> d.s, x |-> d.x]

\* ---- the list (lockfree::list): nodes, cursors, atomic words
\* Option<V>: None is <<>>, Some(v) is <<v>>.
None == <<>>
Some(v) == <<v>>

\* A reference to an atomic pointer: the list head, the next field of node
\* a, or slot b of segment a of the bucket array.
NoLoc == [k |-> "none", a |-> 0, b |-> 0]
HeadLoc == [k |-> "head", a |-> 0, b |-> 0]
NextLoc(n) == [k |-> "next", a |-> n, b |-> 0]
SlotLoc(s, x) == [k |-> "slot", a |-> s, b |-> x]

NoCursor == [prev |-> NoLoc, curr |-> 0]

\* The word an atomic pointer holds.
Load(loc) ==
    CASE loc.k = "head" -> [p |-> head, t |-> 0]
      [] loc.k = "next" -> [p |-> nodes[loc.a].next, t |-> nodes[loc.a].mark]
      [] loc.k = "slot" -> segs[loc.a][loc.b]

\* compare_and_set(expected, new) on loc succeeds (both untagged).
CasOk(loc, expected) == Load(loc) = [p |-> expected, t |-> 0]

\* The memory after storing the untagged pointer n at loc, in nodes ns.
HeadAfter(loc, n) == IF loc.k = "head" THEN n ELSE head
NodesAfter(ns, loc, n) ==
    IF loc.k = "next" THEN [ns EXCEPT ![loc.a].next = n] ELSE ns
SegsAfter(loc, n) ==
    IF loc.k = "slot" THEN [segs EXCEPT ![loc.a][loc.b] = [p |-> n, t |-> 0]]
    ELSE segs

\* ---- the reference map

\* A reference map is a set of <<key, value>> pairs, one per key.
HasKey(m, key) == \E e \in m : e[1] = key
ValueOf(m, key) == (CHOOSE e \in m : e[1] = key)[2]

\* What a reference map answers ...
RefResult(m, op, key, val) ==
    CASE op = "insert" -> IF HasKey(m, key) THEN ErrVal(val) ELSE Ok
      [] op = "delete" -> IF HasKey(m, key) THEN OkVal(ValueOf(m, key)) ELSE Err
      [] op = "lookup" -> IF HasKey(m, key) THEN Found(ValueOf(m, key)) ELSE NotFound

\* ... and becomes.
RefNext(m, op, key, val) ==
    CASE op = "insert" -> IF HasKey(m, key) THEN m ELSE m \cup {<<key, val>>}
      [] op = "delete" -> {e \in m : e[1] # key}
      [] op = "lookup" -> m

\* The nodes linked from node n on, in list order.
RECURSIVE Chain(_)
Chain(n) == IF n = 0 THEN <<>> ELSE <<n>> \o Chain(nodes[n].next)

\* The data nodes in the list: linked, not marked, with a value.
DataNodes ==
    LET c == Chain(head)
    IN  {c[i] : i \in {j \in 1..Len(c) :
                         nodes[c[j]].mark = 0 /\ nodes[c[j]].val # None}}

\* The map the list holds, by content key.
Contents == {<<nodes[n].key, nodes[n].val[1]>> : n \in DataNodes}

\* The same of a reference map.
RefContents(m) == {<<MakeContentKey(e[1]), e[2]>> : e \in m}

\* ---- the calls
TIdle == [pc |-> "idle", op |-> "none", key |-> 0, val |-> 0, size |-> 0,
          stack |-> <<>>, ctx |-> "none", pcur |-> NoCursor,
          cur |-> NoCursor, pn |-> 0, found |-> FALSE, ops |-> 0,
          alone |-> FALSE, seen |-> 0]

\* The calls made so far, the prefix apart.
Calls == th[1].ops + th[2].ops

\* The value a thread passes to its next insert: one per call.
NextValue(t) == 10 * t + th[t].ops + 1

InitWith(fills, threads) ==
    /\ root = Null
    /\ segs = <<>>
    /\ g = [t \in GetThreads |-> GIdle]
    /\ rets = {}
    /\ raises = 0
    /\ passed = {}
    /\ freed = <<>>
    /\ dropped = "no"
    /\ nodes = <<>>
    /\ head = 0
    /\ size = 2
    /\ count = 0
    /\ th = [t \in Threads |-> TIdle]
    /\ hist = [t \in Threads |-> <<>>]
    /\ ref = {}
    /\ fill \in fills
    /\ active = threads
    /\ LsNew

\* The call of thread t is recorded with the calls of the other threads
\* that had returned when it started and, when it runs alone, with the map
\* as it was when it started.
Started(t, op, key, val, alone, prefix) ==
    [op |-> op, key |-> key, val |-> val, res |-> <<"pending">>,
     exp |-> <<"none">>, prefix |-> prefix,
     before |-> [u \in Threads \ {t} |->
                   Cardinality({i \in 1..Len(hist[u]) :
                                  ~hist[u][i].prefix
                                  /\ hist[u][i].res # <<"pending">>})],
     snap |-> IF alone
              THEN [count |-> count, size |-> size, data |-> DataNodes,
                    contents |-> Contents, ref |-> ref]
              ELSE [count |-> 0, size |-> 0, data |-> {}, contents |-> {},
                    ref |-> {}]]

\* lookup, insert or delete is called: assert_valid_key, then find.
Invoke(t, op, key) ==
    /\ t \in active
    /\ fill = <<>>
    /\ \A u \in Threads : ~th[u].alone
    /\ th[t].pc = "idle"
    /\ Calls < MaxCalls
    /\ LET val == IF op = "insert" THEN NextValue(t) ELSE 0
       IN  /\ th' = [th EXCEPT ![t].pc = IF AssertValidKey(key)
                                         THEN "find" ELSE "panic",
                               ![t].op = op, ![t].key = key, ![t].val = val,
                               ![t].ops = @ + 1,
                               ![t].alone = (active = {t})]
           /\ hist' = [hist EXCEPT ![t] =
                          Append(@, Started(t, op, key, val, active = {t}, FALSE))]
    /\ UNCHANGED <<root, segs, gaVars, nodes, head, size, count, ref, fill,
                   active>>

\* The main thread inserts the next key of its prefix, alone.
InvokeFill ==
    /\ fill # <<>>
    /\ th[1].pc = "idle"
    /\ th' = [th EXCEPT ![1].pc = "find", ![1].op = "insert",
                        ![1].key = Head(fill), ![1].val = 100 + Head(fill),
                        ![1].alone = TRUE]
    /\ hist' = [hist EXCEPT ![1] =
                   Append(@, Started(1, "insert", Head(fill), 100 + Head(fill),
                                     TRUE, TRUE))]
    /\ fill' = Tail(fill)
    /\ UNCHANGED <<root, segs, gaVars, nodes, head, size, count, ref, active>>

\* The thread's record and the histories when its call returns res.  A call
\* that ran alone is also applied to the reference map.
ThReturned(t) == [TIdle EXCEPT !.ops = th[t].ops]

HistReturned(t, res) ==
    [hist EXCEPT ![t][Len(hist[t])].res = res,
                 ![t][Len(hist[t])].exp =
                     IF th[t].alone
                     THEN RefResult(ref, th[t].op, th[t].key, th[t].val)
                     ELSE <<"none">>]

RefReturned(t) ==
    IF th[t].alone THEN RefNext(ref, th[t].op, th[t].key, th[t].val) ELSE ref

\* find: load size, take the bucket of the key.
FindSize(t) ==
    /\ th[t].pc = "find"
    /\ th' = [th EXCEPT ![t].pc = "lb_get", ![t].size = size,
                        ![t].stack = <<[index |-> th[t].key % size,
                                        slot |-> NoLoc]>>]
    /\ UNCHANGED <<root, segs, gaVars, nodes, head, size, count, hist, ref,
                   fill, active>>

\* The thread's record when lookup_bucket returns cursor c: the caller (the
\* lookup_bucket of a child bucket, or find) starts find_harris from it.
CursorReturned(r, c) ==
    [r EXCEPT !.stack = SubSeq(r.stack, 1, Len(r.stack) - 1),
              !.ctx = IF Len(r.stack) > 1 THEN "bucket" ELSE "find",
              !.pcur = c, !.cur = c, !.pn = c.curr, !.pc = "fh"]

\* The key find_harris searches: the sentinel's of the bucket being
\* initialized, or the content key of the call's key.
SearchKey(r) ==
    IF r.ctx = "bucket" THEN ReverseBits(r.stack[Len(r.stack)].index)
    ELSE MakeContentKey(r.key)

\* lookup_bucket: get the bucket's slot and load it; return a cursor at
\* the sentinel when it is set.
LbGet(t) ==
    /\ th[t].pc = "lb_get"
    /\ LET top == Len(th[t].stack)
           got == GetSeq(root, segs, ReverseBits(th[t].stack[top].index))
           bucket == got.segs[got.s][got.x]
       IN  /\ root' = got.root
           /\ segs' = got.segs
           /\ IF bucket.p # 0
              THEN th' = [th EXCEPT ![t] =
                            CursorReturned(th[t], [prev |-> SlotLoc(got.s, got.x),
                                                   curr |-> bucket.p])]
              ELSE th' = [th EXCEPT ![t].pc = "lb_parent",
                                    ![t].stack[top].slot = SlotLoc(got.s, got.x)]
    /\ UNCHANGED <<gaVars, nodes, head, size, count, hist, ref, fill, active>>

\* lookup_bucket: load size, compute the parent bucket; recurse unless 0.
LbParent(t) ==
    /\ th[t].pc = "lb_parent"
    /\ LET top == Len(th[t].stack)
           parent == ParentBucket(size, th[t].stack[top].index)
       IN  IF parent = 0
           THEN th' = [th EXCEPT ![t].pc = "lb_head"]
           ELSE th' = [th EXCEPT ![t].pc = "lb_get",
                                 ![t].stack = Append(@, [index |-> parent,
                                                         slot |-> NoLoc])]
    /\ UNCHANGED <<root, segs, gaVars, nodes, head, size, count, hist, ref,
                   fill, active>>

\* lookup_bucket: the parent cursor is list.head(guard).
LbHead(t) ==
    /\ th[t].pc = "lb_head"
    /\ LET c == [prev |-> HeadLoc, curr |-> head]
       IN  th' = [th EXCEPT ![t].pc = "fh", ![t].ctx = "bucket",
                            ![t].pcur = c, ![t].cur = c, ![t].pn = c.curr]
    /\ UNCHANGED <<root, segs, gaVars, nodes, head, size, count, hist, ref,
                   fill, active>>

\* find_harris, one node: skip a marked node, pass a smaller key, stop at
\* the first key >= the searched one or at the end.
FhStep(t) ==
    /\ th[t].pc = "fh"
    /\ LET c == th[t].cur.curr
           key == SearchKey(th[t])
       IN  IF c = 0
           THEN th' = [th EXCEPT ![t].pc = "fh_end", ![t].found = FALSE]
           ELSE IF nodes[c].mark # 0
           THEN th' = [th EXCEPT ![t].cur.curr = nodes[c].next]
           ELSE IF nodes[c].key < key
           THEN th' = [th EXCEPT ![t].cur = [prev |-> NextLoc(c),
                                             curr |-> nodes[c].next],
                                 ![t].pn = nodes[c].next]
           ELSE th' = [th EXCEPT ![t].pc = "fh_end",
                                 ![t].found = (nodes[c].key = key)]
    /\ UNCHANGED <<root, segs, gaVars, nodes, head, size, count, hist, ref,
                   fill, active>>

\* An insert that answers a found key with the stored value.
FhResultStored(r) ==
    IF r.ctx # "find" THEN <<"go">>
    ELSE CASE r.op = "lookup" ->
                IF r.found /\ nodes[r.cur.curr].val # None
                THEN Found(nodes[r.cur.curr].val[1]) ELSE NotFound
           [] r.op = "insert" ->
                IF r.found THEN ErrVal(nodes[r.cur.curr].val[1]) ELSE <<"go">>
           [] r.op = "delete" -> IF r.found THEN <<"go">> ELSE Err

\* An insert that goes on to link its node when the key was found.
FhResultInsertAlways(r) ==
    IF r.ctx # "find" THEN <<"go">>
    ELSE CASE r.op = "lookup" ->
                IF r.found /\ nodes[r.cur.curr].val # None
                THEN Found(nodes[r.cur.curr].val[1]) ELSE NotFound
           [] r.op = "insert" -> <<"go">>
           [] r.op = "delete" -> IF r.found THEN <<"go">> ELSE Err

\* A delete that answers a found key at once, without the list's delete.
FhResultDeleteUnmarked(r) ==
    IF r.ctx # "find" THEN <<"go">>
    ELSE CASE r.op = "lookup" ->
                IF r.found /\ nodes[r.cur.curr].val # None
                THEN Found(nodes[r.cur.curr].val[1]) ELSE NotFound
           [] r.op = "insert" -> IF r.found THEN ErrVal(r.val) ELSE <<"go">>
           [] r.op = "delete" ->
                IF r.found THEN OkVal(nodes[r.cur.curr].val[1]) ELSE Err

\* find_harris has stopped.  What the call returns right after find:
\* lookup its answer, insert Err(value) on a found key, delete Err on a
\* missing one; <<"go">> when the call goes on.
FhResult(r) ==
    IF r.ctx # "find" THEN <<"go">>
    ELSE CASE r.op = "lookup" ->
                IF r.found /\ nodes[r.cur.curr].val # None
                THEN Found(nodes[r.cur.curr].val[1]) ELSE NotFound
           [] r.op = "insert" -> IF r.found THEN ErrVal(r.val) ELSE <<"go">>
           [] r.op = "delete" -> IF r.found THEN <<"go">> ELSE Err

\* A lookup_bucket that inserts its sentinel whatever find_harris found.
FhNextPcNoFound(r) ==
    IF r.ctx = "bucket" THEN "lb_ins"
    ELSE IF r.op = "insert" THEN "ins_cas" ELSE "del_mark"

\* Where a call that goes on continues.
FhNextPc(r) ==
    IF r.ctx = "bucket" THEN (IF r.found THEN "lb_pub" ELSE "lb_ins")
    ELSE IF r.op = "insert" THEN "ins_cas" ELSE "del_mark"

\* The thread's record when find_harris or the sentinel's insert fails: the
\* loop clones the starting cursor again.
FhRestart(r) == [r EXCEPT !.cur = r.pcur, !.pn = r.pcur.curr, !.pc = "fh"]

\* find_harris, the end: when marked nodes were passed, unlink them with one
\* compare_and_set of prev (Err, and a retry, when it fails); then the
\* caller goes on, or the call returns.
FhEnd(t) ==
    /\ th[t].pc = "fh_end"
    /\ LET r == th[t]
           adjacent == r.pn = r.cur.curr
       IN  IF ~adjacent /\ ~CasOk(r.cur.prev, r.pn)
           THEN /\ th' = [th EXCEPT ![t] = FhRestart(r)]
                /\ UNCHANGED <<nodes, head, segs, hist, ref>>
           ELSE /\ head' = IF adjacent THEN head
                           ELSE HeadAfter(r.cur.prev, r.cur.curr)
                /\ nodes' = IF adjacent THEN nodes
                            ELSE NodesAfter(nodes, r.cur.prev, r.cur.curr)
                /\ segs' = IF adjacent THEN segs
                           ELSE SegsAfter(r.cur.prev, r.cur.curr)
                /\ IF FhResult(r) = <<"go">>
                   THEN /\ th' = [th EXCEPT ![t].pc = FhNextPc(r)]
                        /\ UNCHANGED <<hist, ref>>
                   ELSE /\ th' = [th EXCEPT ![t] = ThReturned(t)]
                        /\ hist' = HistReturned(t, FhResult(r))
                        /\ ref' = RefReturned(t)
    /\ UNCHANGED <<root, gaVars, size, count, fill, active>>

\* A sentinel keyed by the bucket index as it is, not reversed.
SentinelNodeByIndex(r) ==
    [key |-> r.stack[Len(r.stack)].index, val |-> None,
     next |-> r.cur.curr, mark |-> 0]

\* Cursor::insert: the node's next is curr, compare_and_set prev to it.
SentinelNode(r) ==
    [key |-> ReverseBits(r.stack[Len(r.stack)].index), val |-> None,
     next |-> r.cur.curr, mark |-> 0]

DataNode(r) ==
    [key |-> MakeContentKey(r.key), val |-> Some(r.val),
     next |-> r.cur.curr, mark |-> 0]

\* lookup_bucket: insert the sentinel at the cursor, or search again.
LbInsert(t) ==
    /\ th[t].pc = "lb_ins"
    /\ LET r == th[t]
           id == Len(nodes) + 1
       IN  IF CasOk(r.cur.prev, r.cur.curr)
           THEN /\ nodes' = NodesAfter(Append(nodes, SentinelNode(r)),
                                       r.cur.prev, id)
                /\ head' = HeadAfter(r.cur.prev, id)
                /\ segs' = SegsAfter(r.cur.prev, id)
                /\ th' = [th EXCEPT ![t].cur.curr = id, ![t].pc = "lb_pub"]
           ELSE /\ th' = [th EXCEPT ![t] = FhRestart(r)]
                /\ UNCHANGED <<nodes, head, segs>>
    /\ UNCHANGED <<root, gaVars, size, count, hist, ref, fill, active>>

\* lookup_bucket: compare_and_set the bucket's slot from null to the
\* sentinel, return the cursor.
LbPublish(t) ==
    /\ th[t].pc = "lb_pub"
    /\ LET r == th[t]
           slot == r.stack[Len(r.stack)].slot
       IN  /\ segs' = IF Load(slot) = Null THEN SegsAfter(slot, r.cur.curr)
                      ELSE segs
           /\ th' = [th EXCEPT ![t] = CursorReturned(r, r.cur)]
    /\ UNCHANGED <<root, gaVars, nodes, head, size, count, hist, ref, fill,
                   active>>

\* An insert that takes a failed compare_and_set for done.
InsCasNoRetry(t) ==
    /\ th[t].pc = "ins_cas"
    /\ LET r == th[t]
           id == Len(nodes) + 1
       IN  IF CasOk(r.cur.prev, r.cur.curr)
           THEN /\ nodes' = NodesAfter(Append(nodes, DataNode(r)),
                                       r.cur.prev, id)
                /\ head' = HeadAfter(r.cur.prev, id)
                /\ segs' = SegsAfter(r.cur.prev, id)
           ELSE UNCHANGED <<nodes, head, segs>>
    /\ th' = [th EXCEPT ![t].pc = "ins_cnt", ![t].cur = NoCursor,
                        ![t].pcur = NoCursor, ![t].pn = 0,
                        ![t].found = FALSE, ![t].ctx = "none"]
    /\ UNCHANGED <<root, gaVars, size, count, hist, ref, fill, active>>

\* insert: insert the node at the cursor, or find again.
InsCas(t) ==
    /\ th[t].pc = "ins_cas"
    /\ LET r == th[t]
           id == Len(nodes) + 1
       IN  IF CasOk(r.cur.prev, r.cur.curr)
           THEN /\ nodes' = NodesAfter(Append(nodes, DataNode(r)),
                                       r.cur.prev, id)
                /\ head' = HeadAfter(r.cur.prev, id)
                /\ segs' = SegsAfter(r.cur.prev, id)
                /\ th' = [th EXCEPT ![t].pc = "ins_cnt", ![t].cur = NoCursor,
                                    ![t].pcur = NoCursor, ![t].pn = 0,
                                    ![t].found = FALSE, ![t].ctx = "none"]
           ELSE /\ th' = [th EXCEPT ![t].pc = "find", ![t].cur = NoCursor,
                                    ![t].pcur = NoCursor, ![t].pn = 0,
                                    ![t].found = FALSE, ![t].ctx = "none",
                                    ![t].size = 0]
                /\ UNCHANGED <<nodes, head, segs>>
    /\ UNCHANGED <<root, gaVars, size, count, hist, ref, fill, active>>

\* A resize test that forgets the load factor.
OverLoadNoFactor(cnt, sz) == cnt > sz

\* The resize test on the count before the increment.
OverLoad(cnt, sz) == cnt > sz * LOAD_FACTOR

\* insert: count.fetch_add(1); return Ok unless the load calls for a resize.
InsCount(t) ==
    /\ th[t].pc = "ins_cnt"
    /\ count' = (count + 1) % (2 ^ USIZE_SIZE)
    /\ IF OverLoad(count, th[t].size)
       THEN /\ th' = [th EXCEPT ![t].pc = "ins_size", ![t].seen = count]
            /\ UNCHANGED <<hist, ref>>
       ELSE /\ th' = [th EXCEPT ![t] = ThReturned(t)]
            /\ hist' = HistReturned(t, Ok)
            /\ ref' = RefReturned(t)
    /\ UNCHANGED <<root, segs, gaVars, nodes, head, size, fill, active>>

\* A resize that adds the size it read to size, whatever size is by now.
InsResizeAdd(t) ==
    /\ th[t].pc = "ins_size"
    /\ size' = size + th[t].size
    /\ th' = [th EXCEPT ![t] = ThReturned(t)]
    /\ hist' = HistReturned(t, Ok)
    /\ ref' = RefReturned(t)
    /\ UNCHANGED <<root, segs, gaVars, nodes, head, count, fill, active>>

\* insert: size.compare_and_swap(size, size * 2), once; return Ok.
InsResize(t) ==
    /\ th[t].pc = "ins_size"
    /\ size' = IF size = th[t].size THEN th[t].size * 2 ELSE size
    /\ th' = [th EXCEPT ![t] = ThReturned(t)]
    /\ hist' = HistReturned(t, Ok)
    /\ ref' = RefReturned(t)
    /\ UNCHANGED <<root, segs, gaVars, nodes, head, count, fill, active>>

\* Cursor::delete: fetch_or the mark into curr's next; Err when it was set.
DelMark(t) ==
    /\ th[t].pc = "del_mark"
    /\ LET c == th[t].cur.curr
       IN  IF nodes[c].mark # 0
           THEN /\ th' = [th EXCEPT ![t] = ThReturned(t)]
                /\ hist' = HistReturned(t, Err)
                /\ ref' = RefReturned(t)
                /\ nodes' = nodes
           ELSE /\ nodes' = [nodes EXCEPT ![c].mark = 1]
                /\ th' = [th EXCEPT ![t].pc = "del_unlink",
                                    ![t].pn = nodes[c].next]
                /\ UNCHANGED <<hist, ref>>
    /\ UNCHANGED <<root, segs, gaVars, head, size, count, fill, active>>

\* Cursor::delete: try to unlink curr with one compare_and_set of prev.
DelUnlink(t) ==
    /\ th[t].pc = "del_unlink"
    /\ LET r == th[t]
           ok == CasOk(r.cur.prev, r.cur.curr)
       IN  /\ head' = IF ok THEN HeadAfter(r.cur.prev, r.pn) ELSE head
           /\ nodes' = IF ok THEN NodesAfter(nodes, r.cur.prev, r.pn) ELSE nodes
           /\ segs' = IF ok THEN SegsAfter(r.cur.prev, r.pn) ELSE segs
    /\ th' = [th EXCEPT ![t].pc = "del_cnt"]
    /\ UNCHANGED <<root, gaVars, size, count, hist, ref, fill, active>>

\* A delete that forgets count.
DelCountSkip(t) ==
    /\ th[t].pc = "del_cnt"
    /\ count' = count
    /\ th' = [th EXCEPT ![t] = ThReturned(t)]
    /\ hist' = HistReturned(t, OkVal(nodes[th[t].cur.curr].val[1]))
    /\ ref' = RefReturned(t)
    /\ UNCHANGED <<root, segs, gaVars, nodes, head, size, fill, active>>

\* delete: count.fetch_sub(1); return the value.
DelCount(t) ==
    /\ th[t].pc = "del_cnt"
    /\ count' = (count - 1) % (2 ^ USIZE_SIZE)
    /\ th' = [th EXCEPT ![t] = ThReturned(t)]
    /\ hist' = HistReturned(t, OkVal(nodes[th[t].cur.curr].val[1]))
    /\ ref' = RefReturned(t)
    /\ UNCHANGED <<root, segs, gaVars, nodes, head, size, fill, active>>

Next ==
    \/ \E t \in Threads, op \in Ops, key \in Keys : Invoke(t, op, key)
    \/ InvokeFill
    \/ \E t \in Threads : FindSize(t)
    \/ \E t \in Threads : LbGet(t)
    \/ \E t \in Threads : LbParent(t)
    \/ \E t \in Threads : LbHead(t)
    \/ \E t \in Threads : FhStep(t)
    \/ \E t \in Threads : FhEnd(t)
    \/ \E t \in Threads : LbInsert(t)
    \/ \E t \in Threads : LbPublish(t)
    \/ \E t \in Threads : InsCas(t)
    \/ \E t \in Threads : InsCount(t)
    \/ \E t \in Threads : InsResize(t)
    \/ \E t \in Threads : DelMark(t)
    \/ \E t \in Threads : DelUnlink(t)
    \/ \E t \in Threads : DelCount(t)

\* SplitOrderedList::new, then the main thread's prefix (none, or enough
\* to bring count to the resize threshold), then two threads' calls.
Init == InitWith({<<>>, SubSeq(FillKeys, 1, FillLen)}, Threads)

Spec == Init /\ [][Next]_vars

\* The same with one thread; the prefix may bring size to 4 and to 8.
InitSeq ==
    InitWith({<<>>, SubSeq(FillKeys, 1, FillLen),
              SubSeq(FillKeys, 1, 2 * FillLen)}, {1})

SpecSeq == InitSeq /\ [][Next]_vars

\* ------------------------------------------------ lock-coupling set: claims
\* The set's nodes linked from node n on, in list order.
RECURSIVE LsChain(_)
LsChain(n) == IF n = 0 THEN <<>> ELSE <<n>> \o LsChain(lsNodes[n].next)

\* The keys in the set.
LsSet == LET c == LsChain(lsHead.next) IN {lsNodes[c[i]].data : i \in 1..Len(c)}

LsSorted ==
    LET c == LsChain(lsHead.next)
    IN  \A i \in 1..(Len(c) - 1) : lsNodes[c[i]].data < lsNodes[c[i + 1]].data

\* Thread t returns from op in this step, having held the guard at the
\* key's position.
LsReturns(t, op) ==
    ls[t].pc \in {"found", "rm_lock"} /\ ls[t].op = op /\ ls'[t].pc = "idle"

\* C15: under any interleaving of insert, remove and contains the list
\* stays strictly sorted, without duplicates; insert(key) returns Err(key)
\* and leaves the list as it is exactly when key is in the set while the
\* call holds the lock at key's position, and else adds key; remove(key)
\* returns the key exactly when it is in the set, and unlinks it.
C15_ListSet ==
    /\ [](LsSorted)
    /\ [][\A t \in LsThreads :
            /\ LsReturns(t, "insert") =>
                 /\ (ls'[t].res = ErrVal(ls[t].key)) <=> (ls[t].key \in LsSet)
                 /\ (ls[t].key \in LsSet) =>
                        LsChain(lsHead.next)' = LsChain(lsHead.next)
                 /\ (ls[t].key \notin LsSet) =>
                        /\ ls'[t].res = Ok
                        /\ LsSet' = LsSet \cup {ls[t].key}
            /\ LsReturns(t, "remove") =>
                 /\ (ls'[t].res = OkVal(ls[t].key)) <=> (ls[t].key \in LsSet)
                 /\ (ls[t].key \in LsSet) =>
                        /\ LsSet' = LsSet \ {ls[t].key}
                        /\ \A i \in 1..Len(LsChain(lsHead.next)') :
                              LsChain(lsHead.next)'[i] # ls[t].node
                 /\ (ls[t].key \notin LsSet) =>
                        /\ ls'[t].res = Err
                        /\ LsChain(lsHead.next)' = LsChain(lsHead.next)
            /\ LsReturns(t, "contains") =>
                 (ls'[t].res = <<TRUE>>) <=> (ls[t].key \in LsSet)]_vars

\* A thread is about to unlink a node that is not the first while the
\* other thread waits for the lock that the first one holds.
C15_Witness ==
    \E t, u \in LsThreads :
        /\ ls[t].pc = "rm_lock"
        /\ ls[t].at > 0
        /\ ls[u].pc = "lock_next"
        /\ ls[u].node = ls[t].at

\* No thread holds or is about to lock a node that was freed.
LsNoDangling ==
    \A t \in LsThreads :
        /\ ls[t].at > 0 => lsNodes[ls[t].at].live
        /\ (ls[t].pc \in {"lock_next", "rm_lock"}) => lsNodes[ls[t].node].live

\* ------------------------------------------------- growable array: claims
\* The slot get returned, as an address: (segment, slot index).
SlotOf(r) == <<r.s, r.x>>

\* The height the word width needs: ceil(USIZE_SIZE / SEGMENT_LOGSIZE).
TopHeight == (USIZE_SIZE + SEGMENT_LOGSIZE - 1) \div SEGMENT_LOGSIZE

\* The largest index a trie of height h addresses: S^h - 1, clamped to a word.
MaxAddressable(h) == 2 ^ Min(USIZE_SIZE, SEGMENT_LOGSIZE * h) - 1

\* The segments reachable from node, a segment h levels above the leaf slots.
RECURSIVE Reach(_, _)
Reach(node, h) ==
    IF h <= 1 THEN {node}
    ELSE {node} \cup UNION {Reach(segs[node][x].p, h - 1) :
                              x \in {y \in 0..(SegSize - 1) : segs[node][y].p # 0}}

\* C6: every get(i) returns the same slot, whatever the other calls do
\* between and during the calls.
C6_SlotStable ==
    \A r1, r2 \in rets : r1.i = r2.i => SlotOf(r1) = SlotOf(r2)

\* C7: get(i) and get(j), i # j, never return the same slot, whatever
\* the heights of the trie when each call ran.
C7_DistinctSlots ==
    \A r1, r2 \in rets : r1.i # r2.i => SlotOf(r1) # SlotOf(r2)

\* Slots were returned for an index of height 1 and for one of the top
\* height, in a trie that has grown to the top height.
C7_Witness ==
    /\ raises >= TopHeight
    /\ \E r1, r2 \in rets : r1.i = 0 /\ r2.i = 16 /\ r1.s # r2.s
    /\ \E r1, r2 \in rets : r1.i # r2.i /\ r1.s = r2.s

\* C8: the height loop exits after no more successful raises than the
\* word width needs, for every index of the word range.
C8_BoundedRaises == raises <= TopHeight

\* C9: a get whose index is <= S^H - 1 for the height H >= 1 it read
\* leaves the root pointer and the height unchanged.
C9_CoveredIndexKeepsRoot ==
    [][\A t \in GetThreads :
           (/\ g[t].pc = "cas"
            /\ g'[t].pc # "cas"
            /\ g[t].root.t >= 1
            /\ g[t].index <= MaxAddressable(g[t].root.t))
           => root' = root]_vars

\* C10: drop frees every segment reachable from the root exactly once,
\* the children in the last slot of an internal segment included.
C10_AllFreedOnce ==
    dropped = "yes" => \A s \in Reach(root.p, root.t) : freed[s] = 1

\* ---------------------------------------------- split-ordered list: claims
\* No call of the map is in progress.
Quiescent == \A t \in Threads : th[t].pc \in {"idle", "panic"}

\* The calls of thread t that returned, the prefix apart, in order.
RECURSIVE Returned(_)
Returned(h) ==
    IF h = <<>> THEN <<>>
    ELSE IF ~Head(h).prefix /\ Head(h).res # <<"pending">>
    THEN <<Head(h)>> \o Returned(Tail(h))
    ELSE Returned(Tail(h))

\* Some order of the returned calls of the two threads, from the i-th of
\* thread 1 and the j-th of thread 2 on, keeps each thread's order, puts
\* no call before one that had returned when it started, and gives every
\* call the result the map m and its successors give.
RECURSIVE Linearizes(_, _, _, _, _)
Linearizes(m, a, b, i, j) ==
    \/ i = Len(a) /\ j = Len(b)
    \/ /\ i < Len(a)
       /\ a[i + 1].before[2] <= j
       /\ a[i + 1].res = RefResult(m, a[i + 1].op, a[i + 1].key, a[i + 1].val)
       /\ Linearizes(RefNext(m, a[i + 1].op, a[i + 1].key, a[i + 1].val),
                     a, b, i + 1, j)
    \/ /\ j < Len(b)
       /\ b[j + 1].before[1] <= i
       /\ b[j + 1].res = RefResult(m, b[j + 1].op, b[j + 1].key, b[j + 1].val)
       /\ Linearizes(RefNext(m, b[j + 1].op, b[j + 1].key, b[j + 1].val),
                     a, b, i, j + 1)

\* C1: every concurrent history of lookup, insert and delete calls with
\* valid keys is linearizable against a key -> value map (checked on the
\* complete histories; the map starts as the prefix left it).
C1_Linearizable ==
    Quiescent => Linearizes(ref, Returned(hist[1]), Returned(hist[2]), 0, 0)

\* Calls of the two threads overlapped, one of them resized the map and a
\* bucket of the doubled size was initialized.
C1_Witness ==
    /\ Quiescent
    /\ size = 4
    /\ \E n \in 1..Len(nodes) : nodes[n].key = ReverseBits(3) /\ nodes[n].val = None
    /\ \E i \in 1..Len(hist[1]), j \in 1..Len(hist[2]) :
          /\ ~hist[1][i].prefix
          /\ hist[1][i].res # <<"pending">>
          /\ hist[2][j].res # <<"pending">>
          /\ hist[1][i].before[2] < j
          /\ hist[2][j].before[1] < Cardinality({k \in 1..i : ~hist[1][k].prefix})

\* C2: in a single-threaded run every call returns what the reference map
\* returns, and the list holds the reference map's entries, however often
\* size has doubled.
C2_SeqRefines ==
    /\ \A i \in 1..Len(hist[1]) :
          hist[1][i].res # <<"pending">> => hist[1][i].res = hist[1][i].exp
    /\ Quiescent => Contents = RefContents(ref)

\* After two doublings of size a delete returned a value and a lookup
\* found one.
C2_Witness ==
    /\ active = {1}
    /\ size = 8
    /\ Quiescent
    /\ \E i \in 1..Len(hist[1]) :
          hist[1][i].op = "delete" /\ hist[1][i].res[1] = "Ok"
    /\ \E i \in 1..Len(hist[1]) :
          hist[1][i].op = "lookup" /\ hist[1][i].res[1] = "Some"

\* The last call of thread t has returned, ran alone, and was op.
LastAlone(t, op) ==
    /\ th[t].pc = "idle"
    /\ hist[t] # <<>>
    /\ hist[t][Len(hist[t])].op = op
    /\ hist[t][Len(hist[t])].exp # <<"none">>

Last(t) == hist[t][Len(hist[t])]

\* The key was in the map when the last call of t started.
WasPresent(t) == HasKey(Last(t).snap.ref, Last(t).key)

\* C3: insert(key, value) on a present key returns Err(value) and leaves
\* count, size, the value stored for key and the data nodes unchanged.
C3_InsertPresent ==
    \A t \in Threads :
        (LastAlone(t, "insert") /\ WasPresent(t)) =>
            /\ Last(t).res = <<"Err", Last(t).val>>
            /\ count = Last(t).snap.count
            /\ size = Last(t).snap.size
            /\ DataNodes = Last(t).snap.data
            /\ Contents = Last(t).snap.contents

\* An insert on a present key has returned.
C3_Witness ==
    \E t \in Threads :
        /\ LastAlone(t, "insert")
        /\ WasPresent(t)
        /\ ~Last(t).prefix
        /\ Last(t).snap.count > 0

\* C4: delete(key) on an absent key returns Err and leaves count and the
\* data nodes unchanged.
C4_DeleteAbsent ==
    \A t \in Threads :
        (LastAlone(t, "delete") /\ ~WasPresent(t)) =>
            /\ Last(t).res = <<"Err">>
            /\ count = Last(t).snap.count
            /\ DataNodes = Last(t).snap.data

\* A delete on an absent key has returned, in a map that holds other keys.
C4_Witness ==
    \E t \in Threads :
        /\ LastAlone(t, "delete")
        /\ ~WasPresent(t)
        /\ Last(t).snap.count > 0

\* C5: a call with a key whose top bit is set fails the assertion at once:
\* it changes nothing of the list, the bucket array, size or count, and
\* the thread does nothing after it.
C5_InvalidKeyNoEffect ==
    [][\A t \in Threads :
          /\ (th[t].pc = "idle" /\ th'[t].pc # "idle" /\ th'[t].key >= HI_MASK)
                => (/\ th'[t].pc = "panic"
                    /\ UNCHANGED <<root, segs, nodes, head, size, count>>)
          /\ (th[t].key >= HI_MASK /\ th[t].pc # "idle") => th'[t] = th[t]]_vars

\* A call with an invalid key has failed in a map that holds keys.
C5_Witness ==
    \E t \in Threads : th[t].pc = "panic" /\ th[t].key >= HI_MASK /\ count > 0

\* The value of size is a power of two.
RECURSIVE IsPowerOfTwo(_)
IsPowerOfTwo(n) == n = 1 \/ (n > 1 /\ n % 2 = 0 /\ IsPowerOfTwo(n \div 2))

\* C11: size starts at 2, is always a power of two and never decreases:
\* every change of size is from some s to exactly 2s.
C11_SizeDoubles ==
    /\ size = 2
    /\ [](IsPowerOfTwo(size))
    /\ [][size' # size => size' = 2 * size]_vars

\* Size has doubled while another insert, which had read the old size and
\* had seen the load too, still was to try its compare_and_swap.
C11_Witness ==
    \E t \in Threads : th[t].pc = "ins_size" /\ size = 2 * th[t].size

\* No insert or delete call is in progress.
NoUpdateRunning ==
    \A t \in Threads : th[t].pc \in {"idle", "panic"} \/ th[t].op = "lookup"

\* C12: whenever no insert or delete is in progress, count is the number
\* of data nodes in the list.
C12_CountCoherent == NoUpdateRunning => count = Cardinality(DataNodes)

\* Inserts and deletes of the two threads overlapped and have all returned;
\* keys were deleted and a key was inserted.
C12_Witness ==
    /\ Quiescent
    /\ fill = <<>>
    /\ count > 0
    /\ \E i \in 1..Len(hist[1]), j \in 1..Len(hist[2]) :
          /\ ~hist[1][i].prefix
          /\ {hist[1][i].op, hist[2][j].op} = {"insert", "delete"}
          /\ hist[1][i].res[1] = "Ok" /\ hist[2][j].res[1] = "Ok"
          /\ hist[1][i].before[2] < j
          /\ hist[2][j].before[1] < Cardinality({k \in 1..i : ~hist[1][k].prefix})

\* The list keys along the list, marked nodes included, strictly increase.
Sorted(c) == \A i \in 1..(Len(c) - 1) : nodes[c[i]].key < nodes[c[i + 1]].key

\* C13: in every reachable state the list is strictly increasing in list
\* key: no two linked nodes, sentinel or data, carry the same key.
C13_ListSorted == Sorted(Chain(head))

\* A data node's key was deleted and inserted again, between sentinels of
\* two buckets.
C13_Witness ==
    /\ \E n \in 1..Len(nodes) : nodes[n].mark = 1
    /\ \E n, k \in 1..Len(nodes) :
          n # k /\ nodes[n].key = nodes[k].key /\ nodes[k].mark = 0
    /\ Cardinality({n \in 1..Len(nodes) : nodes[n].val = None}) >= 2

\* The nodes linked in the list.
Linked == LET c == Chain(head) IN {c[i] : i \in 1..Len(c)}

\* The leaf slot of index in the bucket array as it is: <<segment, slot>>,
\* or <<0, 0>> when the trie has no segment for it yet.
RECURSIVE Walk(_, _, _)
Walk(node, height, index) ==
    LET x == CurrentIndex(index, height)
    IN  IF height = 1 THEN <<node, x>>
        ELSE IF segs[node][x].p = 0 THEN <<0, 0>>
        ELSE Walk(segs[node][x].p, height - 1, index)

SlotAt(index) ==
    IF root.t >= 1 /\ HeightCovers(index, root.t)
    THEN Walk(root.p, root.t, index) ELSE <<0, 0>>

\* The node the bucket array holds for bucket b (0: none).
BucketOf(b) ==
    LET a == SlotAt(ReverseBits(b))
    IN  IF a[1] = 0 THEN 0 ELSE segs[a[1]][a[2]].p

\* The non-null leaf slots below node, a segment of the given height whose
\* first index is base: <<index, node in the slot>>.
RECURSIVE Leaves(_, _, _)
Leaves(node, height, base) ==
    LET set == {x \in 0..(SegSize - 1) : segs[node][x].p # 0}
    IN  IF height = 1 THEN {<<base + x, segs[node][x].p>> : x \in set}
        ELSE UNION {Leaves(segs[node][x].p, height - 1,
                           base + x * 2 ^ ((height - 1) * SEGMENT_LOGSIZE)) :
                      x \in set}

\* The non-null slots of the bucket array.
Buckets == IF root.p = 0 \/ root.t = 0 THEN {} ELSE Leaves(root.p, root.t, 0)

\* C14: every non-null slot of the bucket array, at index reverse_bits(b),
\* points to a node that is linked in the list, has list key
\* reverse_bits(b) and has no value.
C14_SentinelPositions ==
    LET linked == Linked
    IN  \A e \in Buckets :
            LET b == ReverseBits(e[1])
            IN  /\ e[1] = ReverseBits(b)
                /\ e[2] \in linked
                /\ nodes[e[2]].key = ReverseBits(b)
                /\ nodes[e[2]].val = None

\* The buckets 1, 2 and 3 are published, data nodes around them.
C14_Witness ==
    /\ BucketOf(1) # 0
    /\ BucketOf(2) # 0
    /\ BucketOf(3) # 0
    /\ BucketOf(1) # BucketOf(3)
    /\ count > 3


\* C16, as claimed: at every step where size changes from s to 2s,
\* count > s * LOAD_FACTOR holds at that step.
C16_ResizeUnderLoad ==
    [][size' # size => count > size * LOAD_FACTOR]_vars

\* C16, amended: at every step where size changes from s to 2s, the insert
\* that changes it has read s and, at its own fetch_add, a count above
\* s * LOAD_FACTOR.
C16_ResizeAfterLoadSeen ==
    [][size' # size =>
          \E t \in Threads :
              /\ th[t].pc = "ins_size"
              /\ th'[t].pc = "idle"
              /\ th[t].size = size
              /\ th[t].seen > size * LOAD_FACTOR
              /\ size' = 2 * size]_vars

\* Size has doubled, and deletes that ran between the insert's fetch_add
\* and its compare_and_swap have left count at the old threshold.
C16_Witness ==
    /\ Quiescent
    /\ size = 2 * 2
    /\ count <= 2 * LOAD_FACTOR
    /\ \E t \in Threads :
          /\ hist[t] # <<>>
          /\ Last(t).op = "insert" /\ ~Last(t).prefix /\ Last(t).res = Ok

\* C17: a slot of a segment that has become non-null never changes again,
\* the root height never decreases, and each successful compare_and_set of
\* the root raises the height by exactly 1.
C17_MonotonicPublication ==
    [][/\ \A s \in 1..Len(segs), x \in 0..(SegSize - 1) :
             segs[s][x] # Null => segs'[s][x] = segs[s][x]
       /\ root'.t >= root.t
       /\ root' # root => root'.t = root.t + 1]_vars

\* The nodes of ns that are sentinels of bucket b.
SentinelsIn(ns, b) ==
    {n \in 1..Len(ns) : ns[n].key = ReverseBits(b) /\ ns[n].val = None}

\* The nodes ever linked as the sentinel of bucket b.
SentinelsOf(b) == SentinelsIn(nodes, b)

\* Thread t returns from the lookup_bucket on top of its stack in this step.
LbReturns(t) == Len(th'[t].stack) < Len(th[t].stack)

\* C18: however the lookup_bucket calls for a bucket race, at most one
\* sentinel with list key reverse_bits(b) is ever linked, the bucket's slot
\* is written at most once, and every call returns a cursor at that
\* linked sentinel.
C18_OneSentinel ==
    /\ [](\A n, k \in 1..Len(nodes) :
            (n # k /\ nodes[n].val = None /\ nodes[k].val = None)
                => nodes[n].key # nodes[k].key)
    /\ [][/\ \A s \in 1..Len(segs), x \in 0..(SegSize - 1) :
                segs[s][x] # Null => segs'[s][x] = segs[s][x]
          /\ \A t \in Threads :
                LbReturns(t) =>
                    LET b == th[t].stack[Len(th[t].stack)].index
                    IN  /\ th'[t].cur.curr \in SentinelsIn(nodes', b)
                        /\ th'[t].cur.curr \in Linked']_vars

\* A thread that saw the bucket's slot empty has found the sentinel the
\* other thread linked, and the other thread has published it.
C18_Witness ==
    \E t \in Threads :
        /\ th[t].pc = "lb_pub"
        /\ th[t].found
        /\ Load(th[t].stack[Len(th[t].stack)].slot) # Null

\* The most significant set bit of b >= 1.
RECURSIVE Msb(_)
Msb(b) == IF b <= 1 THEN b ELSE 2 * Msb(b \div 2)

\* Bucket b and its ancestors down to bucket 0.
RECURSIVE Ancestors(_)
Ancestors(b) == IF b = 0 THEN {0} ELSE {b} \cup Ancestors(b - Msb(b))

\* C19: lookup_bucket(b) takes the list head as the parent cursor only for
\* b = 0, and when it returns the sentinels of b and of all its ancestors
\* down to bucket 0 are linked in the list.
C19_ParentFirst ==
    [][\A t \in Threads :
          /\ (th[t].pc = "lb_parent" /\ th'[t].pc = "lb_head")
                => th[t].stack[Len(th[t].stack)].index = 0
          /\ LbReturns(t) =>
                \A a \in Ancestors(th[t].stack[Len(th[t].stack)].index) :
                    SentinelsIn(nodes', a) \cap Linked' # {}]_vars

\* The calls of all threads after the prefix, returned or not: <<t, i>> is
\* the i-th call of thread t.
AllCalls ==
    UNION {{<<t, i>> : i \in {j \in 1..Len(hist[t]) : ~hist[t][j].prefix}} :
             t \in Threads}

CallsOn(k) == {c \in AllCalls : hist[c[1]][c[2]].key = k}

Deletes(k) == {c \in CallsOn(k) : hist[c[1]][c[2]].op = "delete"}
DeletesOk(k) == {c \in Deletes(k) : hist[c[1]][c[2]].res[1] = "Ok"}
DeletesErr(k) == {c \in Deletes(k) : hist[c[1]][c[2]].res = Err}

\* The calls after the prefix that returned Ok from op.
OkCalls(op) ==
    {c \in AllCalls : hist[c[1]][c[2]].op = op /\ hist[c[1]][c[2]].res[1] = "Ok"}

\* C20: of the delete(k) calls of several threads for a present key k that
\* no thread inserts meanwhile, exactly one returns Ok with the stored
\* value, count goes down by one for it, and a call returns Err only when
\* k has been removed already.
C20_OneDeleteWins ==
    \A k \in Keys :
        (/\ HasKey(ref, k)
         /\ Deletes(k) # {}
         /\ \A c \in CallsOn(k) : hist[c[1]][c[2]].op # "insert") =>
            /\ Cardinality(DeletesOk(k)) <= 1
            /\ \A c \in DeletesOk(k) :
                  hist[c[1]][c[2]].res = OkVal(ValueOf(ref, k))
            /\ DeletesErr(k) # {} =>
                  \A n \in DataNodes : nodes[n].key # MakeContentKey(k)
            /\ Quiescent =>
                  /\ Cardinality(DeletesOk(k)) = 1
                  /\ count = Cardinality(ref) + Cardinality(OkCalls("insert"))
                                - Cardinality(OkCalls("delete"))

\* Two deletes of a present key overlapped; one returned its value, the
\* other Err, while an insert of another key was made.
C20_Witness ==
    /\ Quiescent
    /\ \E k \in Keys :
          /\ HasKey(ref, k)
          /\ \A c \in CallsOn(k) : hist[c[1]][c[2]].op = "delete"
          /\ Cardinality(DeletesOk(k)) = 1
          /\ \E c \in DeletesErr(k), d \in DeletesOk(k) :
                /\ c[1] # d[1]
                /\ hist[c[1]][c[2]].before[d[1]] = 0
    /\ OkCalls("insert") # {}

\* The data nodes ever linked into the list, the deleted ones included: a
\* node enters `nodes` when the compare_and_set that links it succeeds.
EverLinked == {n \in 1..Len(nodes) : nodes[n].val # None}

\* C21: count never underflows: in every reachable state count is at most
\* the number of data nodes ever linked, delete's fetch_sub is never applied
\* to count = 0, and no insert's fetch_add reads a count above the number
\* of data nodes ever linked.
C21_NoUnderflow ==
    /\ [](count <= Cardinality(EverLinked))
    /\ [][\A t \in Threads :
            /\ th[t].pc = "del_cnt" /\ th'[t].pc # "del_cnt" => count > 0
            /\ th[t].pc = "ins_cnt" /\ th'[t].pc # "ins_cnt" =>
                   count <= Cardinality(EverLinked)]_vars

\* C22: dropping a GrowableArray on which get was never called (root null,
\* height 0) frees nothing and reads no slot: the drop traversal never
\* dereferences the null root.
C22_NullRootDrop ==
    (dropped # "no" /\ root = Null /\ raises = 0) =>
        /\ dropped # "null_deref"
        /\ \A s \in DOMAIN freed : freed[s] = 0

=============================================================================
